---- MODULE Spec2Model ----
(***************************************************************************)
(* Model of emulation/mqtt_emulator.py: the publish scheduler of main()    *)
(* with the publish calls of DeviceEmulator (specification Spec), and the  *)
(* bounded random walks owned by one DeviceEmulator (specification         *)
(* SpecWalk).                                                              *)
(*                                                                         *)
(* Time is counted in abstract clock units.  Walk values are integers in   *)
(* thousandths of the unit of the quantity.  A publish call is recorded    *)
(* with its device, topic, channel, retain flag, outcome and the ts (and   *)
(* online) field of its payload; the sampled values of the payloads are    *)
(* those of SpecWalk.  client.publish returns ("ok", or "err": a failure   *)
(* code that the caller ignores) or raises ("raise").                      *)
(***************************************************************************)
EXTENDS Integers, Sequences, FiniteSets, TLC

\* ------------------------------------------------------------------ bounds
NumDevices == 2        \* number of names in --devices
NumChannels == 2       \* number of identifiers in --dp-channels
Interval == 2          \* --interval, in clock units
MaxRounds == 2         \* rounds of the while loop that are explored
MaxFailures == 1       \* publish calls that fail in one execution
MaxSlow == 3           \* publish calls that take one clock unit

\* ------------------------------------------------------- scheduler state
VARIABLES
    pc,         \* position of main(): online, install_int, install_term,
                \* loop_head, round, sleep, finally, release, done, crashed, killed
    di,         \* index in emus of the device main() is at
    ti,         \* position inside publish_once: 1 bme688, 2 sps30, 2+k dp channel k
    ts,         \* local ts of the publish_once call in progress
    flag,       \* stop["flag"]
    handlers,   \* signal -> "default" or "handle_sig"
    now,        \* the clock read by time.time() and rfc3339_now()
    start,      \* local start of the round in progress
    rnd,        \* number of rounds started
    exc,        \* an exception is propagating out of the try block
    released,   \* client.loop_stop() and client.disconnect() were called
    log,        \* the publish calls made on the client, in order
    naps,       \* per round: elapsed time measured and time slept
    sig,        \* where main() was when the stop flag was first set
    slow,       \* publish calls that took time so far
    walk,       \* device -> walk name -> RandomWalk.v
    dp_walk,    \* device -> channel -> RandomWalk.v of self.dp_walk[ch]
    active,     \* the walk whose random draws are explored (a set of one)
    wd,         \* device whose publish_once samples next
    wst,        \* payload it builds next: 1 bme688, 2 sps30, 2+k dp channel k
    passes,     \* rounds of sampling finished
    returned,   \* the values returned by RandomWalk.next in the latest payload
    sample,     \* the latest payload call: walk values before it, its draws,
                \* the values it computed and the payload it returned
    arg_channels,   \* the dp_channels argument of a DeviceEmulator under construction
    ci,             \* position of the loop of __init__ in arg_channels
    new_dp_walk     \* its self.dp_walk so far: the pairs of channel and start value

walkVars == <<walk, dp_walk, active, wd, wst, passes, returned, sample>>

seedVars == <<arg_channels, ci, new_dp_walk>>

schedVars == <<pc, di, ti, ts, flag, handlers, now, start, rnd, exc, released,
               log, naps, sig, slow>>

\* devices = [d.strip() ...], dp_channels = [int(x) ...]
devices == [i \in 1..NumDevices |-> i]
dp_channels == [k \in 1..NumChannels |-> k]

Signals == {"SIGINT", "SIGTERM"}

\* rfc3339_now(): the UTC clock formatted with the literal Z suffix
rfc3339_now(t) == [utc |-> t, suffix |-> "Z"]

NoTs == [utc |-> -1, suffix |-> ""]

NoSig == [pc |-> "none", rnd |-> 0]

\* topic_bme / topic_sps / topic_dp / topic_status below the device's base
topic_status == "status"
topic_bme == "telemetry/bme688"
topic_sps == "telemetry/sps30"
topic_dp == "telemetry/dp"

\* Outcomes of client.publish: it returns (success or a failure code the
\* caller ignores) or it raises.
Failures(l) == Cardinality({i \in 1..Len(l) : l[i].res # "ok"})
Outcomes(l) == IF Failures(l) < MaxFailures THEN {"ok", "err", "raise"} ELSE {"ok"}
Durations(s) == IF s < MaxSlow THEN {0, 1} ELSE {0}

\* one call of client.publish(topic, payload, qos, retain)
PublishCall(dev, topic, ch, online, stamp, retain, res) ==
    [dev |-> dev, topic |-> topic, ch |-> ch, online |-> online,
     ts |-> stamp, retain |-> retain, rnd |-> rnd, res |-> res]

\* publish_status with the status message not retained
publish_status_NoRetain(dev, online, res) ==
    PublishCall(dev, topic_status, 0, online, rfc3339_now(now), FALSE, res)

\* DeviceEmulator.publish_status(online): retained status publish
publish_status(dev, online, res) ==
    PublishCall(dev, topic_status, 0, online, rfc3339_now(now), TRUE, res)

\* publish_once with every payload reading the clock for its own ts
publish_telemetry_OwnStamp(dev, topic, ch, stamp, res) ==
    PublishCall(dev, topic, ch, "-", rfc3339_now(now), FALSE, res)

\* the telemetry publishes of DeviceEmulator.publish_once
publish_telemetry(dev, topic, ch, stamp, res) ==
    PublishCall(dev, topic, ch, "-", stamp, FALSE, res)

SchedInit ==
    /\ pc = "online"
    /\ di = 1
    /\ ti = 1
    /\ ts = NoTs
    /\ flag = FALSE
    /\ handlers = [s \in Signals |-> "default"]
    /\ now = 0
    /\ start = 0
    /\ rnd = 0
    /\ exc = FALSE
    /\ released = FALSE
    /\ log = <<>>
    /\ naps = <<>>
    /\ sig = NoSig
    /\ slow = 0

\* the online loop leaving after the first device
PublishOnline_FirstOnly ==
    /\ pc = "online"
    /\ \E res \in Outcomes(log), dt \in Durations(slow) :
          /\ log' = Append(log, publish_status(devices[di], "true", res))
          /\ now' = now + dt
          /\ slow' = slow + dt
          /\ IF res = "raise"
                THEN /\ pc' = "crashed"
                     /\ exc' = TRUE
                     /\ di' = di
                ELSE /\ exc' = exc
                     /\ di' = 1
                     /\ pc' = "install_int"
    /\ UNCHANGED <<ti, ts, flag, handlers, start, rnd, released, naps, sig>>
    /\ UNCHANGED walkVars
    /\ UNCHANGED seedVars

\* main, lines 190-191: for emu in emus: emu.publish_status(True)
PublishOnline ==
    /\ pc = "online"
    /\ \E res \in Outcomes(log), dt \in Durations(slow) :
          /\ log' = Append(log, publish_status(devices[di], "true", res))
          /\ now' = now + dt
          /\ slow' = slow + dt
          /\ IF res = "raise"
                THEN /\ pc' = "crashed"
                     /\ exc' = TRUE
                     /\ di' = di
                ELSE /\ exc' = exc
                     /\ IF di < NumDevices
                           THEN /\ di' = di + 1
                                /\ pc' = pc
                           ELSE /\ di' = 1
                                /\ pc' = "install_int"
    /\ UNCHANGED <<ti, ts, flag, handlers, start, rnd, released, naps, sig>>
    /\ UNCHANGED walkVars
    /\ UNCHANGED seedVars

\* main, line 199: signal.signal(signal.SIGINT, handle_sig)
InstallInt ==
    /\ pc = "install_int"
    /\ handlers' = [handlers EXCEPT !["SIGINT"] = "handle_sig"]
    /\ pc' = "install_term"
    /\ UNCHANGED <<di, ti, ts, flag, now, start, rnd, exc, released, log, naps, sig, slow>>
    /\ UNCHANGED walkVars
    /\ UNCHANGED seedVars

\* main, line 200: signal.signal(signal.SIGTERM, handle_sig)
InstallTerm ==
    /\ pc = "install_term"
    /\ handlers' = [handlers EXCEPT !["SIGTERM"] = "handle_sig"]
    /\ pc' = "loop_head"
    /\ UNCHANGED <<di, ti, ts, flag, now, start, rnd, exc, released, log, naps, sig, slow>>
    /\ UNCHANGED walkVars
    /\ UNCHANGED seedVars

Running == pc \in {"online", "install_int", "install_term", "loop_head",
                   "round", "sleep", "finally", "release"}

\* delivery of SIGINT or SIGTERM: handle_sig sets the flag; before the
\* handler is installed the default disposition ends the process
Signal(s) ==
    /\ Running
    /\ IF handlers[s] = "handle_sig"
          THEN /\ flag' = TRUE
               /\ sig' = IF sig = NoSig
                            THEN [pc |-> pc, rnd |-> rnd]
                            ELSE sig
               /\ pc' = pc
          ELSE /\ pc' = "killed"
               /\ UNCHANGED <<flag, sig>>
    /\ UNCHANGED <<di, ti, ts, handlers, now, start, rnd, exc, released, log, naps, slow>>
    /\ UNCHANGED walkVars
    /\ UNCHANGED seedVars

\* the loop head not reading the stop flag
LoopHead_NoStop ==
    /\ pc = "loop_head"
    /\ rnd < MaxRounds
    /\ pc' = "round"
    /\ start' = now
    /\ rnd' = rnd + 1
    /\ di' = 1
    /\ ti' = 1
    /\ UNCHANGED <<ts, flag, handlers, now, exc, released, log, naps, sig, slow>>
    /\ UNCHANGED walkVars
    /\ UNCHANGED seedVars

\* main, lines 203-204: while not stop["flag"]: start = time.time()
LoopHead ==
    /\ pc = "loop_head"
    /\ IF flag
          THEN /\ pc' = "finally"
               /\ UNCHANGED <<start, rnd>>
          ELSE /\ rnd < MaxRounds
               /\ pc' = "round"
               /\ start' = now
               /\ rnd' = rnd + 1
    /\ di' = 1
    /\ ti' = 1
    /\ UNCHANGED <<ts, flag, handlers, now, exc, released, log, naps, sig, slow>>
    /\ UNCHANGED walkVars
    /\ UNCHANGED seedVars

\* the round leaving the device loop after the first device's pass
AfterTelemetry_FirstDevice(res, lastTopic) ==
    IF res = "raise"
       THEN /\ pc' = "finally"
            /\ exc' = TRUE
            /\ di' = 1
            /\ ti' = 1
       ELSE /\ exc' = exc
            /\ IF ~lastTopic
                  THEN /\ ti' = ti + 1
                       /\ di' = di
                       /\ pc' = pc
                  ELSE /\ ti' = 1
                       /\ di' = 1
                       /\ pc' = "sleep"

\* control after one telemetry publish of publish_once returned or raised
AfterTelemetry(res, lastTopic) ==
    IF res = "raise"
       THEN /\ pc' = "finally"
            /\ exc' = TRUE
            /\ di' = 1
            /\ ti' = 1
       ELSE /\ exc' = exc
            /\ IF ~lastTopic
                  THEN /\ ti' = ti + 1
                       /\ di' = di
                       /\ pc' = pc
                  ELSE /\ ti' = 1
                       /\ IF di < NumDevices
                             THEN /\ di' = di + 1
                                  /\ pc' = pc
                             ELSE /\ di' = 1
                                  /\ pc' = "sleep"

\* publish_once, lines 138-141: ts = rfc3339_now(); publish the bme688 payload
PublishBme ==
    /\ pc = "round"
    /\ ti = 1
    /\ ts' = rfc3339_now(now)
    /\ \E res \in Outcomes(log), dt \in Durations(slow) :
          /\ log' = Append(log, publish_telemetry(devices[di], topic_bme, 0, ts', res))
          /\ now' = now + dt
          /\ slow' = slow + dt
          /\ AfterTelemetry(res, FALSE)
    /\ UNCHANGED <<flag, handlers, start, rnd, released, naps, sig>>
    /\ UNCHANGED walkVars
    /\ UNCHANGED seedVars

\* publish_once, line 144: publish the sps30 payload
PublishSps ==
    /\ pc = "round"
    /\ ti = 2
    /\ \E res \in Outcomes(log), dt \in Durations(slow) :
          /\ log' = Append(log, publish_telemetry(devices[di], topic_sps, 0, ts, res))
          /\ now' = now + dt
          /\ slow' = slow + dt
          /\ AfterTelemetry(res, NumChannels = 0)
    /\ UNCHANGED <<ts, flag, handlers, start, rnd, released, naps, sig>>
    /\ UNCHANGED walkVars
    /\ UNCHANGED seedVars

\* publish_once, lines 147-148: for ch in self.dp_channels: publish dp payload
PublishDp ==
    /\ pc = "round"
    /\ ti > 2
    /\ \E res \in Outcomes(log), dt \in Durations(slow) :
          /\ log' = Append(log, publish_telemetry(devices[di], topic_dp,
                                                  dp_channels[ti - 2], ts, res))
          /\ now' = now + dt
          /\ slow' = slow + dt
          /\ AfterTelemetry(res, ti - 2 = NumChannels)
    /\ UNCHANGED <<ts, flag, handlers, start, rnd, released, naps, sig>>
    /\ UNCHANGED walkVars
    /\ UNCHANGED seedVars

\* the sleep not reduced by the time the round took
SleepFor_Whole(elapsed) == Interval

\* main, lines 207-209: sleep = interval - (time.time() - start)
SleepFor(elapsed) == Interval - elapsed

Sleep ==
    /\ pc = "sleep"
    /\ LET sleep == SleepFor(now - start)
       IN  IF sleep > 0
              THEN /\ now' = now + sleep
                   /\ naps' = Append(naps, [elapsed |-> now - start, slept |-> sleep,
                                            start |-> start])
              ELSE /\ now' = now
                   /\ naps' = Append(naps, [elapsed |-> now - start, slept |-> 0,
                                            start |-> start])
    /\ pc' = "loop_head"
    /\ UNCHANGED <<di, ti, ts, flag, handlers, start, rnd, exc, released, log, sig, slow>>
    /\ UNCHANGED walkVars
    /\ UNCHANGED seedVars

\* main, lines 211-212: for emu in emus: emu.publish_status(False)
PublishOffline ==
    /\ pc = "finally"
    /\ \E res \in Outcomes(log), dt \in Durations(slow) :
          /\ log' = Append(log, publish_status(devices[di], "false", res))
          /\ now' = now + dt
          /\ slow' = slow + dt
          /\ IF res = "raise"
                THEN /\ pc' = "crashed"
                     /\ exc' = TRUE
                     /\ di' = di
                ELSE /\ exc' = exc
                     /\ IF di < NumDevices
                           THEN /\ di' = di + 1
                                /\ pc' = pc
                           ELSE /\ di' = 1
                                /\ pc' = "release"
    /\ UNCHANGED <<ti, ts, flag, handlers, start, rnd, released, naps, sig>>
    /\ UNCHANGED walkVars
    /\ UNCHANGED seedVars

\* main, lines 213-214: client.loop_stop(); client.disconnect(); then the
\* exception of the try block, if any, propagates
Release ==
    /\ pc = "release"
    /\ released' = TRUE
    /\ pc' = IF exc THEN "crashed" ELSE "done"
    /\ UNCHANGED <<di, ti, ts, flag, handlers, now, start, rnd, exc, log, naps, sig, slow>>
    /\ UNCHANGED walkVars
    /\ UNCHANGED seedVars


\* ------------------------------------------------------------ random walks
MaxPasses == 2         \* rounds of sampling that are explored

\* def clamp(v, lo, hi): return max(lo, min(hi, v))
Min(a, b) == IF a < b THEN a ELSE b
Max(a, b) == IF a > b THEN a ELSE b
clamp_NoUpper(v, lo, hi) == Max(lo, v)
clamp(v, lo, hi) == Max(lo, Min(hi, v))

\* DeviceEmulator.__init__, lines 46-59: step, lo, hi of every walk and the
\* values its start is drawn from (the ends of random.uniform, or the literal)
WalkNames == {"temp", "rh", "press_pa", "gas", "iaq", "voc_index", "co2_eq",
              "pm1", "pm25", "pm4", "pm10"}
BmeNames == {"temp", "rh", "press_pa", "gas", "iaq", "voc_index", "co2_eq"}
SpsNames == {"pm1", "pm25", "pm4", "pm10"}

WalkParams ==
    [temp      |-> [starts |-> {18000, 23000}, step |-> 50, lo |-> 10000, hi |-> 35000],
     rh        |-> [starts |-> {35000, 55000}, step |-> 200, lo |-> 15000, hi |-> 90000],
     press_pa  |-> [starts |-> {101325000}, step |-> 30000, lo |-> 98000000, hi |-> 104000000],
     gas       |-> [starts |-> {50000000}, step |-> 500000, lo |-> 1000000, hi |-> 200000000],
     iaq       |-> [starts |-> {35000}, step |-> 2500, lo |-> 5000, hi |-> 250000],
     voc_index |-> [starts |-> {15000}, step |-> 2000, lo |-> 0, hi |-> 500000],
     co2_eq    |-> [starts |-> {600000}, step |-> 15000, lo |-> 400000, hi |-> 2000000],
     pm1       |-> [starts |-> {3000}, step |-> 500, lo |-> 0, hi |-> 100000],
     pm25      |-> [starts |-> {6000}, step |-> 800, lo |-> 0, hi |-> 200000],
     pm4       |-> [starts |-> {8000}, step |-> 1000, lo |-> 0, hi |-> 250000],
     pm10      |-> [starts |-> {10000}, step |-> 1200, lo |-> 0, hi |-> 300000]]

\* DeviceEmulator.__init__, lines 64-66: the walk of one dp channel
DpBase_Swapped(ch) == IF ch = 1 THEN -95000 ELSE -80000
DpBase(ch) == IF ch = 1 THEN -80000 ELSE -95000
DpParams(ch) ==
    [starts |-> {DpBase(ch) - 8000, DpBase(ch) + 8000}, step |-> 3000,
     lo |-> -300000, hi |-> 20000]

\* identity of one walk object: the device, the attribute, the dp channel
ChannelIds == {dp_channels[k] : k \in 1..NumChannels}
WalkId(d, n, ch) == [dev |-> d, name |-> n, ch |-> ch]
WalkIds ==
    {WalkId(d, n, 0) : d \in 1..NumDevices, n \in WalkNames}
    \cup {WalkId(d, "dp", ch) : d \in 1..NumDevices, ch \in ChannelIds}
Params(id) == IF id.name = "dp" THEN DpParams(id.ch) ELSE WalkParams[id.name]

\* The draws of one call of RandomWalk.next: f is random.uniform(-step, step)
\* in sevenths of step, g is random.gauss(0, jitter) in tenths.
NoDraw == [f |-> 0, g |-> 0]
DrawSet == {[f |-> f, g |-> g] : f \in {-7, 0, 3, 7}, g \in {-40, 0, 40}}

\* RandomWalk.next, lines 29-33, on value v of a walk with parameters p
next(v, p, dr) ==
    clamp(v + (dr.f * p.step) \div 7 + dr.g * ((p.hi - p.lo) \div 1000), p.lo, p.hi)

\* the draws of the calls of next on the walks ids, one per walk
DrawsFor(ids) ==
    {[id \in ids |-> IF id \in active THEN c[id] ELSE NoDraw] :
        c \in [ids \cap active -> DrawSet]}

\* A walk that is explored starts at a value of its construction or at a
\* bound that earlier advances have led it to; the others start at the
\* least value of their construction.
LeastStart(id) == CHOOSE x \in Params(id).starts : \A y \in Params(id).starts : x <= y
StartValues(id) == Params(id).starts \cup {Params(id).lo, Params(id).hi}
StartChoices(act) ==
    {c \in [act -> UNION {StartValues(id) : id \in act}] :
        \A id \in act : c[id] \in StartValues(id)}
StartOf(act, c, id) == IF id \in act THEN c[id] ELSE LeastStart(id)

\* no payload was built yet
NoSample == [kind |-> "none"]

WalkInitFor(act, c) ==
    /\ active = act
    /\ walk = [d \in 1..NumDevices |-> [n \in WalkNames |-> StartOf(act, c, WalkId(d, n, 0))]]
    /\ dp_walk = [d \in 1..NumDevices |-> [ch \in ChannelIds |-> StartOf(act, c, WalkId(d, "dp", ch))]]
    /\ wd = 1
    /\ wst = 1
    /\ passes = 0
    /\ returned = {}
    /\ sample = NoSample

\* One walk of one device is explored in an execution: its draws range over
\* DrawSet and its device has particulate events; every other call of
\* random.* returns the draw that leaves the value where it is.
WalkInit ==
    \E id \in WalkIds :
        \E c \in StartChoices({id}) : WalkInitFor({id}, c)

Explored(d) == \E id \in active : id.dev = d

\* the walks as constructed when only the scheduler is explored
WalkFresh == WalkInitFor({}, <<>>)

\* position after the payload at stage st of device d has been built
AfterPayload(lastStage) ==
    IF ~lastStage
       THEN /\ wst' = wst + 1
            /\ wd' = wd
            /\ passes' = passes
       ELSE /\ wst' = 1
            /\ IF wd < NumDevices
                  THEN /\ wd' = wd + 1
                       /\ passes' = passes
                  ELSE /\ wd' = 1
                       /\ passes' = passes + 1

Returned(id, v) == [id |-> id, lo |-> Params(id).lo, hi |-> Params(id).hi, v |-> v]

\* round(x, ndigits) on thousandths: unit is 1000 for 0 digits, 100 for 1,
\* 10 for 2; a tie goes to the even neighbour
Round_Keep(v, unit) == v
Round(v, unit) ==
    LET q == v \div unit
        r == v % unit
    IN  IF 2 * r < unit THEN q * unit
        ELSE IF 2 * r > unit THEN (q + 1) * unit
        ELSE IF q % 2 = 0 THEN q * unit
        ELSE (q + 1) * unit

\* the draws of _bme_payload besides those of the walks: the excursion added
\* to iaq (lines 102-103) and to co2 (lines 106-107), 0 when random.random()
\* is not below 0.02, and random.uniform(-3, 3) of line 104.  The draws that
\* enter iaq and voc are explored with the walks iaq and voc_index, the
\* excursion of co2 with the walk co2_eq.
ExploredIn(d, names) == \E id \in active : id.dev = d /\ id.name \in names
IaqExcursions(d) == IF ExploredIn(d, {"iaq", "voc_index"}) THEN {0, 20000, 80000} ELSE {0}
VocNoises(d) == IF ExploredIn(d, {"iaq", "voc_index"}) THEN {-3000, 0, 3000} ELSE {0}
Co2Excursions(d) == IF ExploredIn(d, {"co2_eq"}) THEN {0, 100000, 300000} ELSE {0}

\* _bme_payload, lines 101-107: the values reported for iaq, voc and co2
\* from the values adv returned by the walks
bme_values_NoReclamp(adv, ix, nz, cx) ==
    LET iaq_val == adv["iaq"] + ix
        co2_val == adv["co2_eq"] + cx
    IN  [iaq_val |-> iaq_val,
         voc_val |-> clamp(adv["voc_index"] + nz + (3 * (iaq_val - 35000)) \div 10, 0, 500000),
         co2_val |-> co2_val]

bme_values_WalkIaq(adv, ix, nz, cx) ==
    LET iaq_val == IF ix = 0 THEN adv["iaq"] ELSE clamp(adv["iaq"] + ix, 5000, 250000)
        co2_val == IF cx = 0 THEN adv["co2_eq"] ELSE clamp(adv["co2_eq"] + cx, 400000, 2000000)
    IN  [iaq_val |-> iaq_val,
         voc_val |-> clamp(adv["voc_index"] + nz + (3 * (adv["iaq"] - 35000)) \div 10, 0, 500000),
         co2_val |-> co2_val]

bme_values(adv, ix, nz, cx) ==
    LET iaq_val == IF ix = 0 THEN adv["iaq"] ELSE clamp(adv["iaq"] + ix, 5000, 250000)
        co2_val == IF cx = 0 THEN adv["co2_eq"] ELSE clamp(adv["co2_eq"] + cx, 400000, 2000000)
    IN  [iaq_val |-> iaq_val,
         voc_val |-> clamp(adv["voc_index"] + nz + (3 * (iaq_val - 35000)) \div 10, 0, 500000),
         co2_val |-> co2_val]

\* _bme_payload: what the walks hold after the call; iaq_val, voc_val and
\* co2_val are locals of the call
bme_stored_Reported(adv, vals) ==
    [n \in BmeNames |->
        IF n = "iaq" THEN vals.iaq_val
        ELSE IF n = "voc_index" THEN vals.voc_val
        ELSE IF n = "co2_eq" THEN vals.co2_val
        ELSE adv[n]]
bme_stored(adv, vals) == adv

\* _bme_payload, lines 109-118: the dict returned (ts is the argument)
BmeDict(adv, vals) ==
    [t_c |-> Round(adv["temp"], 10),
     rh_pct |-> Round(adv["rh"], 100),
     p_pa |-> Round(adv["press_pa"], 1000),
     gas_ohm |-> Round(adv["gas"], 1000),
     iaq |-> Round(vals.iaq_val, 100),
     voc_index |-> Round(vals.voc_val, 100),
     co2_eq |-> Round(vals.co2_val, 1000)]

NoVals == [iaq_val |-> 0, voc_val |-> 0, co2_val |-> 0]
Sample(d, kind, ch, pre, dr, event, bump, ix, nz, cx, vals, payload) ==
    [dev |-> d, kind |-> kind, ch |-> ch, pre |-> pre, dr |-> dr,
     event |-> event, bump |-> bump, iaq_exc |-> ix, noise |-> nz, co2_exc |-> cx,
     vals |-> vals, payload |-> payload]

\* _bme_payload, lines 93-118: the seven walks of the bme688 payload advance
\* (temp, rh, press_pa, gas, iaq, voc_index, co2_eq, in this order)
bme_payload ==
    /\ wst = 1
    /\ passes < MaxPasses
    /\ \E dr \in DrawsFor({WalkId(wd, n, 0) : n \in BmeNames}),
          ix \in IaqExcursions(wd), nz \in VocNoises(wd), cx \in Co2Excursions(wd) :
          LET adv == [n \in BmeNames |->
                         next(walk[wd][n], WalkParams[n], dr[WalkId(wd, n, 0)])]
              vals == bme_values(adv, ix, nz, cx)
              stored == bme_stored(adv, vals)
          IN  /\ walk' = [walk EXCEPT ![wd] =
                             [n \in WalkNames |->
                                 IF n \in BmeNames THEN stored[n] ELSE walk[wd][n]]]
              /\ returned' = {Returned(WalkId(wd, n, 0), adv[n]) : n \in BmeNames}
              /\ sample' = Sample(wd, "bme", 0, walk[wd],
                                  [n \in BmeNames |-> dr[WalkId(wd, n, 0)]],
                                  FALSE, 0, ix, nz, cx, vals, BmeDict(adv, vals))
    /\ AfterPayload(FALSE)
    /\ UNCHANGED <<dp_walk, active>>
    /\ UNCHANGED schedVars
    /\ UNCHANGED seedVars

\* _sps_payload, lines 122-125: the values of pm25 and pm10 after the
\* occasional event (bump is random.uniform(10, 30))
Bumps == {10000, 30000}
EventValue_SameBump(n, v, bump) ==
    IF n = "pm25" THEN clamp(v + bump, 0, 200000)
    ELSE IF n = "pm10" THEN clamp(v + bump, 0, 300000)
    ELSE v
EventValue(n, v, bump) ==
    IF n = "pm25" THEN clamp(v + bump, 0, 200000)
    ELSE IF n = "pm10" THEN clamp(v + (bump * 12) \div 10, 0, 300000)
    ELSE v

\* _sps_payload, lines 126-132: the dict returned
SpsDict(adv) ==
    [pm1_0 |-> Round(adv["pm1"], 100),
     pm2_5 |-> Round(adv["pm25"], 100),
     pm4_0 |-> Round(adv["pm4"], 100),
     pm10 |-> Round(adv["pm10"], 100)]

\* _sps_payload, lines 120-132: the event, then the four pm walks advance
sps_payload ==
    /\ wst = 2
    /\ \E event \in BOOLEAN, bump \in Bumps,
          dr \in DrawsFor({WalkId(wd, n, 0) : n \in SpsNames}) :
          /\ event \/ bump = 10000
          /\ event => Explored(wd)
          /\ LET shifted == [n \in WalkNames |->
                               IF event THEN EventValue(n, walk[wd][n], bump)
                                        ELSE walk[wd][n]]
                 adv == [n \in SpsNames |->
                            next(shifted[n], WalkParams[n], dr[WalkId(wd, n, 0)])]
             IN  /\ walk' = [walk EXCEPT ![wd] =
                                [n \in WalkNames |->
                                    IF n \in SpsNames THEN adv[n] ELSE walk[wd][n]]]
                 /\ returned' = {Returned(WalkId(wd, n, 0), adv[n]) : n \in SpsNames}
                 /\ sample' = Sample(wd, "sps", 0, walk[wd],
                                     [n \in SpsNames |-> dr[WalkId(wd, n, 0)]],
                                     event, IF event THEN bump ELSE 0, 0, 0, 0,
                                     NoVals, SpsDict(adv))
    /\ AfterPayload(NumChannels = 0)
    /\ UNCHANGED <<dp_walk, active>>
    /\ UNCHANGED schedVars
    /\ UNCHANGED seedVars

\* _dp_payload, lines 134-135: the walk of the channel advances; dp_walk is
\* a dict of the instance (line 63), not one dict of the class
dp_payload_SharedDict ==
    /\ wst > 2
    /\ LET ch == dp_channels[wst - 2]
           id == WalkId(wd, "dp", ch)
       IN  \E dr \in DrawsFor({id}) :
              LET adv == next(dp_walk[wd][ch], DpParams(ch), dr[id])
              IN  /\ dp_walk' = [d \in 1..NumDevices |-> [dp_walk[d] EXCEPT ![ch] = adv]]
                  /\ returned' = {Returned(id, adv)}
                  /\ sample' = Sample(wd, "dp", ch, [dp |-> dp_walk[wd][ch]],
                                      [dp |-> dr[id]], FALSE, 0, 0, 0, 0,
                                      NoVals, [dp_pa |-> Round(adv, 100)])
    /\ AfterPayload(wst - 2 = NumChannels)
    /\ UNCHANGED <<walk, active>>
    /\ UNCHANGED schedVars
    /\ UNCHANGED seedVars
dp_payload ==
    /\ wst > 2
    /\ LET ch == dp_channels[wst - 2]
           id == WalkId(wd, "dp", ch)
       IN  \E dr \in DrawsFor({id}) :
              LET adv == next(dp_walk[wd][ch], DpParams(ch), dr[id])
              IN  /\ dp_walk' = [dp_walk EXCEPT ![wd][ch] = adv]
                  /\ returned' = {Returned(id, adv)}
                  /\ sample' = Sample(wd, "dp", ch, [dp |-> dp_walk[wd][ch]],
                                      [dp |-> dr[id]], FALSE, 0, 0, 0, 0,
                                      NoVals, [dp_pa |-> Round(adv, 100)])
    /\ AfterPayload(wst - 2 = NumChannels)
    /\ UNCHANGED <<walk, active>>
    /\ UNCHANGED schedVars
    /\ UNCHANGED seedVars

\* -------------------------------------------- construction of the dp walks
MaxChannelId == 3      \* channel identifiers range over 1..MaxChannelId
MaxListLen == 3        \* length of the --dp-channels list

ChannelLists == UNION {[1..n -> 1..MaxChannelId] : n \in 1..MaxListLen}

\* random.uniform(-8, 8) of line 66
SeedOffsets == {-8000, 0, 8000}

SeedInit ==
    /\ arg_channels \in ChannelLists
    /\ ci = 1
    /\ new_dp_walk = {}

\* no device under construction: the list of main(), the loop not entered
SeedFresh ==
    /\ arg_channels = dp_channels
    /\ ci = 1
    /\ new_dp_walk = {}

\* __init__, lines 64-66: one iteration of for ch in dp_channels
SeedChannel ==
    /\ ci <= Len(arg_channels)
    /\ LET ch == arg_channels[ci]
       IN  \E u \in SeedOffsets :
              new_dp_walk' = {e \in new_dp_walk : e.ch # ch}
                                \cup {[ch |-> ch, v |-> DpBase(ch) + u]}
    /\ ci' = ci + 1
    /\ UNCHANGED arg_channels
    /\ UNCHANGED schedVars
    /\ UNCHANGED walkVars

vars == <<schedVars, walkVars, seedVars>>

Init == SchedInit /\ WalkFresh /\ SeedFresh

Next ==
    \/ PublishOnline
    \/ InstallInt
    \/ InstallTerm
    \/ \E s \in Signals : Signal(s)
    \/ LoopHead
    \/ PublishBme
    \/ PublishSps
    \/ PublishDp
    \/ Sleep
    \/ PublishOffline
    \/ Release

Spec == Init /\ [][Next]_vars

\* main() is one sequential thread that keeps running: the step it is at is
\* eventually taken.  Signals are up to the environment.
MainStep ==
    \/ PublishOnline
    \/ InstallInt
    \/ InstallTerm
    \/ LoopHead
    \/ PublishBme
    \/ PublishSps
    \/ PublishDp
    \/ Sleep
    \/ PublishOffline
    \/ Release

SpecFair == Init /\ [][Next]_vars /\ WF_vars(MainStep)

InitWalk == SchedInit /\ WalkInit /\ SeedFresh

NextWalk ==
    \/ bme_payload
    \/ sps_payload
    \/ dp_payload

SpecWalk == InitWalk /\ [][NextWalk]_vars

InitSeed == SchedInit /\ WalkFresh /\ SeedInit

NextSeed == SeedChannel

SpecSeed == InitSeed /\ [][NextSeed]_vars

\* ------------------------------------------------------------- the claims
IsStatus(e) == e.topic = topic_status
IsOnline(e) == IsStatus(e) /\ e.online = "true"
IsOffline(e) == IsStatus(e) /\ e.online = "false"
IsTelemetry(e) == ~IsStatus(e)
Entries == 1..Len(log)

\* the telemetry publish calls of round r, as <<device, topic, channel>>
RoundTopics(r) ==
    LET sel == SelectSeq(log, LAMBDA e : IsTelemetry(e) /\ e.rnd = r)
    IN  [k \in 1..Len(sel) |-> <<sel[k].dev, sel[k].topic, sel[k].ch>>]

\* what one round publishes: per device in order, bme688, sps30, every channel
PerDevice == 2 + NumChannels
ExpectedRound ==
    [k \in 1..(NumDevices * PerDevice) |->
        LET d == ((k - 1) \div PerDevice) + 1
            t == ((k - 1) % PerDevice) + 1
        IN  IF t = 1 THEN <<devices[d], topic_bme, 0>>
            ELSE IF t = 2 THEN <<devices[d], topic_sps, 0>>
            ELSE <<devices[d], topic_dp, dp_channels[t - 2]>>]

RoundOver(r) == ~(pc = "round" /\ rnd = r)
Completed(r) == Len(naps) >= r \/ (rnd = r /\ pc = "sleep")
Ended == pc \in {"done", "crashed"}
Offlines(d) == {i \in Entries : IsOffline(log[i]) /\ log[i].dev = devices[d]}
Onlines(d) == {i \in Entries : IsOnline(log[i]) /\ log[i].dev = devices[d]}

\* C1: the publish calls are ordered online statuses, then telemetry, then
\* offline statuses: a telemetry publish comes after the online status of
\* every device and before any offline status, and an online status is
\* never published after anything else.
Phase(e) == IF IsOnline(e) THEN 1 ELSE IF IsTelemetry(e) THEN 2 ELSE 3

C1_LifecycleOrder ==
    /\ \A i \in 1..(Len(log) - 1) : Phase(log[i]) <= Phase(log[i + 1])
    /\ (\E i \in Entries : Phase(log[i]) >= 2) =>
           \A d \in 1..NumDevices : Onlines(d) # {}

C1_Witness ==
    /\ pc = "done"
    /\ rnd = 2
    /\ Len(log) = 2 * NumDevices + 2 * NumDevices * PerDevice

\* C2: in every execution that went through the try block and ended, by the
\* stop signal or by a failure raised in a round, the offline status was
\* published exactly once for each device.
C2_OfflineExactlyOnce ==
    (Ended /\ \A i \in Entries : ~(IsOnline(log[i]) /\ log[i].res = "raise"))
        => \A d \in 1..NumDevices : Cardinality(Offlines(d)) = 1

\* C3: a telemetry publish that fails is not retried, the round still
\* publishes every remaining topic of every device, and the loop goes on.
C3_RoundSurvivesFailure ==
    \A i \in Entries :
        (IsTelemetry(log[i]) /\ log[i].res # "ok") =>
            /\ RoundOver(log[i].rnd) => RoundTopics(log[i].rnd) = ExpectedRound
            /\ ~flag => pc \in {"round", "sleep", "loop_head"}

\* C4: when the offline status publish of a device fails, every device
\* still gets its offline status publish attempted.
C4_OfflineIndependent ==
    (Ended /\ \E i \in Entries : IsOffline(log[i]) /\ log[i].res # "ok")
        => \A d \in 1..NumDevices : Offlines(d) # {}

\* C5: the stop flag is only acted on at the loop head: the round in
\* progress when the flag is set publishes all topics of all devices, and
\* no round starts after the flag was set.
C5_CooperativeStop ==
    sig # NoSig =>
        /\ rnd = sig.rnd
        /\ (sig.pc = "round" /\ RoundOver(sig.rnd)) =>
               RoundTopics(sig.rnd) = ExpectedRound

\* C6: the value of every walk lies within the walk's bounds, and so does
\* every value returned by an advance.
WalkValue(id) == IF id.name = "dp" THEN dp_walk[id.dev][id.ch] ELSE walk[id.dev][id.name]

C6_WalksBounded ==
    /\ \A id \in WalkIds :
          Params(id).lo <= WalkValue(id) /\ WalkValue(id) <= Params(id).hi
    /\ \A r \in returned : r.lo <= r.v /\ r.v <= r.hi

\* an event has bumped pm10 and pm2.5 was clamped back to its upper bound
C6_Witness ==
    /\ passes >= 1
    /\ \E d \in 1..NumDevices :
          /\ walk[d]["pm25"] = WalkParams["pm25"].hi
          /\ walk[d]["pm10"] >= 22000

\* C7: every status publish is retained and no telemetry publish is.
C7_RetainByKind ==
    \A i \in Entries : log[i].retain = IsStatus(log[i])

C7_Witness ==
    /\ \E i \in Entries : IsOnline(log[i])
    /\ \E i \in Entries : IsOffline(log[i])
    /\ \E i \in Entries : log[i].topic = topic_bme
    /\ \E i \in Entries : log[i].topic = topic_sps
    /\ \E i \in Entries : log[i].topic = topic_dp

\* C8: after a round the scheduler sleeps interval - elapsed when the round
\* took less than the interval and does not sleep otherwise, and the next
\* round starts right after: one round per period, none replayed.
C8_SleepRemainder ==
    \A k \in 1..Len(naps) :
        /\ naps[k].slept = IF naps[k].elapsed < Interval
                              THEN Interval - naps[k].elapsed
                              ELSE 0
        /\ k < Len(naps) =>
              naps[k + 1].start = naps[k].start + Max(Interval, naps[k].elapsed)

\* a round that overran, followed by a round that did not
C8_Witness ==
    /\ Len(naps) >= 2
    /\ naps[1].elapsed >= Interval
    /\ naps[1].slept = 0
    /\ naps[2].elapsed < Interval
    /\ naps[2].slept > 0

\* C9: a completed round holds exactly one pass per device: the devices in
\* their configured order, each with one bme688, one sps30 and one dp
\* publish per channel, not interleaved.
C9_OnePassPerDevice ==
    \A r \in 1..rnd : Completed(r) => RoundTopics(r) = ExpectedRound

C9_Witness ==
    /\ Len(naps) >= 2
    /\ \E i \in Entries : IsTelemetry(log[i]) /\ log[i].res = "err"

\* C10 as stated: all telemetry payloads of a round, of all devices, carry
\* the same timestamp.
Stamps(r, ds) ==
    {log[i].ts : i \in {k \in Entries : IsTelemetry(log[k]) /\ log[k].rnd = r
                                          /\ log[k].dev \in ds}}

C10_SharedByRound ==
    \A r \in 1..rnd : Cardinality(Stamps(r, {devices[d] : d \in 1..NumDevices})) <= 1

\* C10 amended: the timestamp is produced once per device pass, and all
\* telemetry payloads of one device in a round carry the same timestamp.
C10_SharedByDevicePass ==
    \A r \in 1..rnd : \A d \in 1..NumDevices :
        Cardinality(Stamps(r, {devices[d]})) <= 1

\* a completed round whose devices carry different timestamps
C10_Witness ==
    /\ Completed(1)
    /\ Cardinality(Stamps(1, {devices[d] : d \in 1..NumDevices})) >= 2

\* C11: once the stop flag is set with both handlers installed, and no
\* publish call raises, main() leaves the loop, publishes the offline status
\* of every device, then releases the client and terminates; the client is
\* never released before every device had its offline publish.
HandlersInstalled == \A s \in Signals : handlers[s] = "handle_sig"
Raised == \E i \in Entries : log[i].res = "raise"
AllOffline == \A d \in 1..NumDevices : Offlines(d) # {}
Shutdown == pc = "done" /\ released /\ AllOffline

C11_StopLeadsToShutdown ==
    /\ (flag /\ HandlersInstalled) ~> (Shutdown \/ Raised)
    /\ [](released => AllOffline)

\* the flag was set during a round and main() has shut down
C11_Witness ==
    /\ Shutdown
    /\ sig.pc = "round"
    /\ ~Raised

\* C12 as stated: the walk of the first channel of the list starts within
\* 8 Pa of -80 Pa, the walk of every other position within 8 Pa of -95 Pa.
Near(v, base) == base - 8000 <= v /\ v <= base + 8000
SeedOf(ch) == (CHOOSE e \in new_dp_walk : e.ch = ch).v
Constructed == ci > Len(arg_channels)

C12_SeedByPosition ==
    Constructed =>
        \A k \in 1..Len(arg_channels) :
            Near(SeedOf(arg_channels[k]), IF k = 1 THEN -80000 ELSE -95000)

\* C12 amended: the walk of the channel whose identifier is 1 starts within
\* 8 Pa of -80 Pa and the walk of every other identifier within 8 Pa of
\* -95 Pa, wherever the identifier stands in the list.
C12_SeedByIdentifier ==
    \A e \in new_dp_walk : Near(e.v, IF e.ch = 1 THEN -80000 ELSE -95000)

\* a constructed device whose list holds channel 1, not in first position
C12_Witness ==
    /\ Constructed
    /\ arg_channels[1] # 1
    /\ \E e \in new_dp_walk : e.ch = 1
    /\ \E e \in new_dp_walk : e.ch # 1

\* ---------------------------------------------------------------- payloads
\* the last payload built, and the walks of the device it was built for
IsBme == sample.kind = "bme"
IsSps == sample.kind = "sps"
IsDp == sample.kind = "dp"
Stored == walk[sample.dev]

\* p is v rounded to a multiple of unit (values are in thousandths)
Rounded(p, v, unit) == p % unit = 0 /\ 2 * (p - v) <= unit /\ 2 * (v - p) <= unit

\* the fields that claim and code round alike: humidity, iaq and voc to one
\* decimal, pressure, gas and co2 to an integer, the pm bins and dp to one
\* decimal
RoundedAlike ==
    /\ IsBme => /\ Rounded(sample.payload.rh_pct, Stored["rh"], 100)
                /\ Rounded(sample.payload.p_pa, Stored["press_pa"], 1000)
                /\ Rounded(sample.payload.gas_ohm, Stored["gas"], 1000)
                /\ Rounded(sample.payload.iaq, sample.vals.iaq_val, 100)
                /\ Rounded(sample.payload.voc_index, sample.vals.voc_val, 100)
                /\ Rounded(sample.payload.co2_eq, sample.vals.co2_val, 1000)
    /\ IsSps => /\ Rounded(sample.payload.pm1_0, Stored["pm1"], 100)
                /\ Rounded(sample.payload.pm2_5, Stored["pm25"], 100)
                /\ Rounded(sample.payload.pm4_0, Stored["pm4"], 100)
                /\ Rounded(sample.payload.pm10, Stored["pm10"], 100)
    /\ IsDp => Rounded(sample.payload.dp_pa, dp_walk[sample.dev][sample.ch], 100)

\* C14 as stated: every numeric field of a payload is rounded to its fixed
\* precision, the temperature to one decimal place
C14_TempOneDecimal ==
    /\ RoundedAlike
    /\ IsBme => Rounded(sample.payload.t_c, Stored["temp"], 100)

\* C14, amended: every numeric field of a payload is rounded to its fixed
\* precision, the temperature to two decimal places, humidity, iaq and voc
\* to one, pressure, gas and co2 to an integer, the pm bins and dp to one
C14_TempTwoDecimals ==
    /\ RoundedAlike
    /\ IsBme => Rounded(sample.payload.t_c, Stored["temp"], 10)

\* a bme payload whose temperature was changed by the rounding and has a
\* second decimal
C14_Witness ==
    /\ IsBme
    /\ sample.payload.t_c # Stored["temp"]
    /\ sample.payload.t_c % 100 # 0


\* the value the walk n of the sampled device returned in the last payload:
\* its advance from the value it held before the call
Advanced(n) == next(sample.pre[n], WalkParams[n], sample.dr[n])

\* C15: a particulate event adds the bump to the stored pm25 value and 1.2
\* times the bump to the stored pm10 value, each reclamped to [0,200] and
\* [0,300], before the advance of that tick; what the walks hold after the
\* tick is the advance from the shifted value, and pm1 and pm4 advance from
\* their own values with no bump
C15_EventShiftsWalk ==
    (IsSps /\ sample.event) =>
        /\ Stored["pm25"] = next(clamp(sample.pre["pm25"] + sample.bump, 0, 200000),
                                 WalkParams["pm25"], sample.dr["pm25"])
        /\ Stored["pm10"] = next(clamp(sample.pre["pm10"] + (sample.bump * 12) \div 10, 0, 300000),
                                 WalkParams["pm10"], sample.dr["pm10"])
        /\ Stored["pm1"] = Advanced("pm1")
        /\ Stored["pm4"] = Advanced("pm4")

\* an event in a later tick of the device, whose bump is in the values the
\* walks keep: pm25 and pm10 differ from their plain advance, and pm10 moved
\* by more than the bump
C15_Witness ==
    /\ IsSps
    /\ sample.event
    /\ passes > 0
    /\ Stored["pm25"] # Advanced("pm25")
    /\ Stored["pm10"] > sample.pre["pm10"] + sample.bump

\* C16: in every bme payload, with or without an excursion, the published
\* iaq lies in [5, 250], the published voc index in [0, 500] and the
\* published co2 in [400, 2000]
C16_CoupledInDomain ==
    IsBme =>
        /\ 5000 <= sample.payload.iaq /\ sample.payload.iaq <= 250000
        /\ 0 <= sample.payload.voc_index /\ sample.payload.voc_index <= 500000
        /\ 400000 <= sample.payload.co2_eq /\ sample.payload.co2_eq <= 2000000

\* an excursion that would have left the domain of iaq: the second clamp
\* brought it back to 250
C16_Witness ==
    /\ IsBme
    /\ sample.iaq_exc > 0
    /\ Advanced("iaq") + sample.iaq_exc > 250000
    /\ sample.payload.iaq = 250000

\* C17: the voc value of a tick is clamp(vocWalkValue + noise + 0.3*(iaq - 35),
\* 0, 500) where iaq is the value of that tick after any excursion and its
\* clamp, the one that is published (rounded); with that iaq at 35.0 and the
\* noise at zero the voc value is the voc walk value
C17_VocTracksIaq ==
    IsBme =>
        /\ sample.vals.voc_val =
              clamp(Advanced("voc_index") + sample.noise
                        + (3 * (sample.vals.iaq_val - 35000)) \div 10, 0, 500000)
        /\ Rounded(sample.payload.iaq, sample.vals.iaq_val, 100)
        /\ Rounded(sample.payload.voc_index, sample.vals.voc_val, 100)
        /\ (sample.vals.iaq_val = 35000 /\ sample.noise = 0)
              => sample.vals.voc_val = Advanced("voc_index")

\* a tick with an excursion and a noise, where the coupling term of the
\* published iaq differs from the one of the walk's iaq
C17_Witness ==
    /\ IsBme
    /\ sample.iaq_exc > 0
    /\ sample.noise # 0
    /\ sample.vals.iaq_val > Advanced("iaq")
    /\ sample.vals.voc_val #
          clamp(Advanced("voc_index") + sample.noise
                    + (3 * (Advanced("iaq") - 35000)) \div 10, 0, 500000)

\* C18: devices share no mutable state: a step of the pass of one device
\* leaves every walk value of every other device unchanged
C18_OtherDevicesUnchanged ==
    [][\A d \in 1..NumDevices :
          d # wd => walk'[d] = walk[d] /\ dp_walk'[d] = dp_walk[d]]_vars

\* the pass of device 2 moved a walk of device 2, and device 1 holds the
\* values of its construction
C18_Witness ==
    /\ sample.kind # "none"
    /\ sample.dev = 2
    /\ \E id \in active : id.dev = 2 /\ WalkValue(id) \notin StartValues(id)
    /\ \A n \in WalkNames : walk[1][n] = LeastStart(WalkId(1, n, 0))
    /\ \A ch \in ChannelIds : dp_walk[1][ch] = LeastStart(WalkId(1, "dp", ch))

\* C19: an iaq or co2 excursion changes only the value reported in that
\* tick: after the tick the iaq walk and the co2 walk hold the values of
\* their own advance, and the voc walk holds its own advance, without the
\* coupling term
C19_ExcursionNotStored ==
    IsBme => \A n \in {"iaq", "co2_eq", "voc_index"} : Stored[n] = Advanced(n)

\* an iaq excursion was reported, with its coupling in voc, and neither is
\* in the walks
C19_Witness ==
    /\ IsBme
    /\ sample.iaq_exc > 0
    /\ sample.vals.iaq_val > Stored["iaq"]
    /\ sample.vals.voc_val > Stored["voc_index"]
    /\ sample.payload.iaq > Stored["iaq"]


TypeOK == pc \in {"online", "install_int", "install_term", "loop_head", "round",
                  "sleep", "finally", "release", "done", "crashed", "killed"}
====
